---- MODULE Spec2Model ----
(***************************************************************************)
(* A model of the stateful parts of qznt: the Loop (recurring task with    *)
(* pause/resume), the Cache (TTL map with passive and active eviction),    *)
(* retry (bounded retries with backoff, per-attempt timeout, cancellation),*)
(* the weighted sampler and seeded generator, and debounce.                *)
(* Each component has its own specification; the variables of the other    *)
(* components stay at their initial values.                                *)
(***************************************************************************)
EXTENDS Integers, Sequences, FiniteSets, TLC

(* ------------------------------ bounds --------------------------------- *)
\* largest interval handed to the Loop (constructor or setDelay)
MaxDelay == 3
\* number of clock steps the Loop's environment takes
MaxSteps == 4
\* cap on simultaneously pending invocations of the user function
MaxInflight == 2
\* timer handles that can be alive at once (pending or held in timeoutId)
MaxTimers == 3
\* distinct keys the Cache's callers use
MaxKeys == 2
\* entries the bulk-loading caller of the sweep specification stores
MaxEntries == 21
\* clock steps of the Cache specification
CacheSteps == 2
\* clock steps of the sweep specification
SweepSteps == 2
\* largest explicit `retries` option
MaxRetries == 2
\* most items a sampler is built from
MaxItems == 3
\* largest weight of an item
MaxWeight == 2
\* draws taken from one generator or sampler
MaxDraws == 3
\* longest `wait` of a debounced function
MaxWait == 2
\* calls made to one debounced function, and cancel() calls made on it
MaxCalls == 2
\* clock steps of the debounce specification
DebounceSteps == 3

VARIABLES
    \* ---- Loop (src/src/fs.ts) ----
    state,          \* Loop._state
    timeoutId,      \* Loop.timeoutId: 0 is null, otherwise a timer handle
    delay,          \* Loop.delay
    startTime,      \* Loop.startTime
    remaining,      \* Loop.remaining
    timers,         \* the platform's pending setTimeout timers: {<<handle, fire time>>}
    now,            \* Date.now()
    inflight,       \* run() calls suspended at `await this.fn(this)`
    settled,        \* a run() that has emitted tick/error and is about to re-check the state
    errorListener,  \* whether an `error` listener is registered on the emitter
    unhandled,      \* whether an exception escaped run() (its promise rejected)
    emitted,        \* the events emitted by the last step
    executing,      \* execute() calls suspended at `await this.fn(this)`
    interrupted,    \* whether pause() or stop() was called during the invocation(s) of
                    \* run() started last
    \* ---- Cache (src/unnamed/part_003) ----
    cache,          \* Cache.cache: the Map's entries in insertion order
    interval,       \* Cache.interval: whether the periodic cleanup is registered
    ret,            \* what the last get() returned (0 is null)
    \* ---- retry (src/unnamed/part_001) ----
    options,        \* the options the caller passed to retry()
    retries,        \* `retries` of the current (recursive) call
    retryDelay,     \* `delay` of the current (recursive) call
    aborted,        \* options.signal.aborted
    controllerAborted, \* controller.signal.aborted of the current attempt
    attemptTimer,   \* whether the per-attempt setTimeout is pending
    totalDelay,     \* the backoff wait in progress (0: none)
    calls,          \* how many times fn has been invoked
    outcome,        \* how retry() settled: <<kind, attempt that produced it>>
    pc,             \* where retry() is: idle, attempt, backoff, done
    \* ---- sampler and prng (src/src/rnd.ts) ----
    weights,        \* items.map(selector): item i is identified with its index
    seedArg,        \* the `seed` argument of sampler() or prng()
    prob,           \* sampler: prob[i] as <<numerator, denominator>>
    alias,          \* sampler: alias[i] (0 is undefined)
    ready,          \* whether sampler() has returned
    callRandom,     \* per sampler: the seed of its bound generator (<<>> is undefined)
    picks,          \* per sampler: what its pick() calls returned so far
    gen,            \* per generator returned by prng(): the closure's `seed`
    drawn,          \* per generator: the values it returned so far
    \* ---- debounce (src/src/timing.ts) ----
    wait,           \* the `wait` argument of debounce()
    leading,        \* `leading`: options.immediate ?? false
    debounceId,     \* the closure's timeoutId: 0 is undefined, otherwise a timer handle
    pending,        \* the platform's pending timers of debounced(): {<<handle, fire time, args>>}
    log             \* what happened so far: <<"call", time, args>>, <<"cancel", time, 0>>,
                    \* and <<"exec", time, args>> for every fn.apply(this, args)

loopVars == <<state, timeoutId, delay, startTime, remaining, timers, now,
              inflight, settled, errorListener, unhandled, emitted, executing,
              interrupted>>

\* the Loop's variables without the clock, which the Cache reads too
loopFields == <<state, timeoutId, delay, startTime, remaining, timers,
                inflight, settled, errorListener, unhandled, emitted, executing,
              interrupted>>

cacheVars == <<cache, interval, ret>>

retryVars == <<options, retries, retryDelay, aborted, controllerAborted, attemptTimer,
               totalDelay, calls, outcome, pc>>

rndVars == <<weights, seedArg, prob, alias, ready, callRandom, picks, gen, drawn>>

debounceVars == <<wait, leading, debounceId, pending, log>>

vars == <<loopVars, cacheVars, retryVars, rndVars, debounceVars>>

(* ------------------------------ helpers -------------------------------- *)
Max(a, b) == IF a >= b THEN a ELSE b

Ev(kind, arg) == <<kind, arg>>

\* null / undefined
Nil == -1
\* JavaScript truthiness of `number | null | undefined`
Truthy(n) == n /= Nil /\ n /= 0

\* the two samplers / generators built from the same arguments
Twins == {1, 2}

RndParked ==
    /\ weights = <<>> /\ seedArg = Nil /\ prob = <<>> /\ alias = <<>> /\ ready = FALSE
    /\ callRandom = [s \in Twins |-> <<>>] /\ picks = [s \in Twins |-> <<>>]
    /\ gen = [g \in Twins |-> <<>>] /\ drawn = [g \in Twins |-> <<>>]

DebounceParked ==
    /\ wait = 1 /\ leading = FALSE /\ debounceId = 0 /\ pending = {} /\ log = <<>>

RetryParked ==
    /\ options = [retries |-> 0, delay |-> 1, timeout |-> Nil, signal |-> FALSE]
    /\ retries = 0 /\ retryDelay = 1 /\ aborted = FALSE /\ controllerAborted = FALSE
    /\ attemptTimer = FALSE /\ totalDelay = 0 /\ calls = 0
    /\ outcome = <<"none", 0>> /\ pc = "idle"

(* ================================ Loop ================================= *)
\* Date.now() at construction: far larger than any delay, as the epoch clock is
StartNow == MaxDelay + 1
MaxNow == StartNow + MaxSteps
Delays == {1, MaxDelay}

TimerIds == 1..MaxTimers
\* every <<handle, fire time>> a timer of the model can have
TimerSlots == TimerIds \X (StartNow..(MaxNow + MaxDelay))
PendingIds == {t[1] : t \in timers}
\* setTimeout returns a handle no live timer and no held field has
HasFresh == \E i \in TimerIds : i \notin PendingIds /\ i /= timeoutId
Fresh == CHOOSE i \in TimerIds : i \notin PendingIds /\ i /= timeoutId
\* the fire time of the timer the Loop holds in timeoutId (-1: none pending)
Deadline == IF \E t \in timers : t[1] = timeoutId
            THEN (CHOOSE t \in timers : t[1] = timeoutId)[2]
            ELSE -1

\* clearTimer(): clearTimeout(timeoutId) when timeoutId is truthy
ClearTimer_Noop(ts, tid) == ts
ClearTimer(ts, tid) == IF tid /= 0 THEN {t \in ts : t[1] /= tid} ELSE ts

\* run() up to its await: returns early unless running, else calls fn
RunStarts(st) == st = "running"

\* constructor(fn, delay, immediate): immediate runs start() inside the constructor
LoopInit ==
    /\ delay \in Delays
    /\ \E immediate \in BOOLEAN :
         /\ state = (IF immediate THEN "running" ELSE "stopped")
         /\ inflight = (IF immediate THEN 1 ELSE 0)
         /\ emitted = (IF immediate THEN <<Ev("start", 0)>> ELSE <<>>)
    /\ timeoutId = 0
    /\ startTime = 0
    /\ remaining = 0
    /\ timers = {}
    /\ now = StartNow
    /\ settled = "none"
    /\ errorListener = FALSE
    /\ unhandled = FALSE
    /\ executing = 0
    /\ interrupted = FALSE
    /\ cache = <<>> /\ interval = FALSE /\ ret = 0
    /\ RndParked
    /\ RetryParked
    /\ DebounceParked

\* loop.on("error", handler)
OnError ==
    /\ ~errorListener
    /\ errorListener' = TRUE
    /\ emitted' = <<>>
    /\ UNCHANGED <<state, timeoutId, delay, startTime, remaining, timers, now,
                   inflight, settled, unhandled>>
    /\ UNCHANGED <<executing, interrupted, cacheVars, retryVars, rndVars, debounceVars>>

\* start()
Start_Unguarded ==
    /\ UNCHANGED <<executing, cacheVars, retryVars, rndVars, debounceVars>>
    /\ inflight < MaxInflight
    /\ state' = "running"
    /\ emitted' = <<Ev("start", 0)>>
    /\ inflight' = inflight + 1
    /\ interrupted' = FALSE
    /\ UNCHANGED <<timeoutId, delay, startTime, remaining, timers, now,
                   settled, errorListener, unhandled>>

Start ==
    /\ UNCHANGED <<executing, cacheVars, retryVars, rndVars, debounceVars>>
    /\ IF state /= "stopped"
       THEN /\ emitted' = <<>>
            /\ UNCHANGED <<state, timeoutId, delay, startTime, remaining, timers, now,
                           inflight, settled, errorListener, unhandled, interrupted>>
       ELSE /\ inflight < MaxInflight
            /\ state' = "running"
            /\ emitted' = <<Ev("start", 0)>>
            /\ inflight' = inflight + 1
            /\ interrupted' = FALSE
            /\ UNCHANGED <<timeoutId, delay, startTime, remaining, timers, now,
                           settled, errorListener, unhandled>>

\* the argument resume() hands to setTimeout
ResumeWait_FullDelay == delay
ResumeWait == remaining

\* resume()
Resume ==
    /\ UNCHANGED <<executing, cacheVars, retryVars, rndVars, debounceVars>>
    /\ IF state /= "paused"
       THEN /\ emitted' = <<>>
            /\ UNCHANGED <<state, timeoutId, delay, startTime, remaining, timers, now,
                           inflight, settled, errorListener, unhandled, interrupted>>
       ELSE /\ state' = "running"
            /\ emitted' = <<Ev("resume", 0)>>
            /\ IF remaining <= 0
               THEN /\ inflight < MaxInflight
                    /\ inflight' = inflight + 1
                    /\ interrupted' = FALSE
                    /\ UNCHANGED <<timeoutId, timers>>
               ELSE /\ HasFresh
                    /\ timeoutId' = Fresh
                    /\ timers' = timers \cup {<<Fresh, now + ResumeWait>>}
                    /\ UNCHANGED <<inflight, interrupted>>
            /\ UNCHANGED <<delay, startTime, remaining, now, settled, errorListener, unhandled>>

\* stop()
Stop ==
    /\ state' = "stopped"
    /\ remaining' = 0
    /\ timers' = ClearTimer(timers, timeoutId)
    /\ timeoutId' = 0
    /\ interrupted' = (interrupted \/ inflight > 0 \/ settled /= "none")
    /\ emitted' = (IF state /= "stopped" THEN <<Ev("stop", 0)>> ELSE <<>>)
    /\ UNCHANGED <<delay, startTime, now, inflight, settled, errorListener, unhandled>>
    /\ UNCHANGED <<executing, cacheVars, retryVars, rndVars, debounceVars>>

\* the remaining time pause() computes
PauseRemaining == Max(0, delay - (now - startTime))

\* pause()
Pause_KeepsTimer ==
    /\ UNCHANGED <<executing, cacheVars, retryVars, rndVars, debounceVars>>
    /\ IF state /= "running"
       THEN /\ emitted' = <<>>
            /\ UNCHANGED <<state, timeoutId, delay, startTime, remaining, timers, now,
                           inflight, settled, errorListener, unhandled, interrupted>>
       ELSE /\ state' = "paused"
            /\ remaining' = PauseRemaining
            /\ emitted' = <<Ev("pause", PauseRemaining)>>
            /\ timers' = timers
            /\ timeoutId' = 0
            /\ interrupted' = (interrupted \/ inflight > 0 \/ settled /= "none")
            /\ UNCHANGED <<delay, startTime, now, inflight, settled, errorListener, unhandled>>

Pause ==
    /\ UNCHANGED <<executing, cacheVars, retryVars, rndVars, debounceVars>>
    /\ IF state /= "running"
       THEN /\ emitted' = <<>>
            /\ UNCHANGED <<state, timeoutId, delay, startTime, remaining, timers, now,
                           inflight, settled, errorListener, unhandled, interrupted>>
       ELSE /\ state' = "paused"
            /\ remaining' = PauseRemaining
            /\ emitted' = <<Ev("pause", PauseRemaining)>>
            /\ timers' = ClearTimer(timers, timeoutId)
            /\ timeoutId' = 0
            /\ interrupted' = (interrupted \/ inflight > 0 \/ settled /= "none")
            /\ UNCHANGED <<delay, startTime, now, inflight, settled, errorListener, unhandled>>

\* setDelay(ms)
SetDelay(ms) ==
    /\ delay' = ms
    /\ emitted' = <<>>
    /\ UNCHANGED <<state, timeoutId, startTime, remaining, timers, now,
                   inflight, settled, errorListener, unhandled>>
    /\ UNCHANGED <<executing, interrupted, cacheVars, retryVars, rndVars, debounceVars>>

\* a pending timer fires and calls run(); the fired handle stays in timeoutId
TimerFire(t) ==
    /\ settled = "none"
    /\ t \in timers
    /\ t[2] <= now
    /\ timers' = timers \ {t}
    /\ emitted' = <<>>
    /\ IF RunStarts(state)
       THEN /\ inflight < MaxInflight
            /\ inflight' = inflight + 1
            /\ interrupted' = FALSE
       ELSE UNCHANGED <<inflight, interrupted>>
    /\ UNCHANGED <<state, timeoutId, delay, startTime, remaining, now,
                   settled, errorListener, unhandled>>
    /\ UNCHANGED <<executing, cacheVars, retryVars, rndVars, debounceVars>>

\* emit("error", err) on an emitter without an `error` listener throws err
EmitErrorThrows == ~errorListener

\* the awaited user function settles: run() emits tick, or catches and emits error
FnSettles(ok) ==
    /\ settled = "none"
    /\ inflight > 0
    /\ inflight' = inflight - 1
    /\ IF ok
       THEN /\ emitted' = <<Ev("tick", 0)>>
            /\ settled' = "tick"
            /\ UNCHANGED unhandled
       ELSE IF EmitErrorThrows
            THEN /\ emitted' = <<>>
                 /\ settled' = "none"
                 /\ unhandled' = TRUE
            ELSE /\ emitted' = <<Ev("error", 0)>>
                 /\ settled' = "error"
                 /\ UNCHANGED unhandled
    /\ UNCHANGED <<state, timeoutId, delay, startTime, remaining, timers, now, errorListener>>
    /\ UNCHANGED <<executing, interrupted, cacheVars, retryVars, rndVars, debounceVars>>

\* run() after the emit: re-check the state and arm the next timer
RunReschedule_Unchecked ==
    /\ settled /= "none"
    /\ settled' = "none"
    /\ emitted' = <<>>
    /\ startTime' = now
    /\ remaining' = 0
    /\ LET cleared == ClearTimer(timers, timeoutId)
           id == CHOOSE i \in TimerIds : i \notin {t[1] : t \in cleared}
       IN  /\ \E i \in TimerIds : i \notin {t[1] : t \in cleared}
           /\ timeoutId' = id
           /\ timers' = cleared \cup {<<id, now + delay>>}
    /\ UNCHANGED <<state, delay, now, inflight, errorListener, unhandled>>
    /\ UNCHANGED <<executing, interrupted, cacheVars, retryVars, rndVars, debounceVars>>

RunReschedule ==
    /\ settled /= "none"
    /\ settled' = "none"
    /\ emitted' = <<>>
    /\ IF state = "running"
       THEN /\ startTime' = now
            /\ remaining' = 0
            /\ LET cleared == ClearTimer(timers, timeoutId)
                   id == CHOOSE i \in TimerIds : i \notin {t[1] : t \in cleared}
               IN  /\ \E i \in TimerIds : i \notin {t[1] : t \in cleared}
                   /\ timeoutId' = id
                   /\ timers' = cleared \cup {<<id, now + delay>>}
       ELSE UNCHANGED <<startTime, remaining, timeoutId, timers>>
    /\ UNCHANGED <<state, delay, now, inflight, errorListener, unhandled>>
    /\ UNCHANGED <<executing, interrupted, cacheVars, retryVars, rndVars, debounceVars>>

\* execute(): calls fn once and awaits it, whatever the state
Execute_AsRun ==
    /\ inflight < MaxInflight
    /\ inflight' = inflight + 1
    /\ emitted' = <<>>
    /\ UNCHANGED <<state, timeoutId, delay, startTime, remaining, timers, now,
                   settled, errorListener, unhandled, executing, interrupted>>
    /\ UNCHANGED <<cacheVars, retryVars, rndVars, debounceVars>>

Execute ==
    /\ executing < MaxInflight
    /\ executing' = executing + 1
    /\ emitted' = <<>>
    /\ UNCHANGED <<state, timeoutId, delay, startTime, remaining, timers, now,
                   inflight, settled, errorListener, unhandled, interrupted>>
    /\ UNCHANGED <<cacheVars, retryVars, rndVars, debounceVars>>

\* the function awaited by execute() settles: the result or the rejection goes
\* to the caller of execute(), no event is emitted
ExecuteSettles ==
    /\ settled = "none"
    /\ executing > 0
    /\ executing' = executing - 1
    /\ emitted' = <<>>
    /\ UNCHANGED <<state, timeoutId, delay, startTime, remaining, timers, now,
                   inflight, settled, errorListener, unhandled, interrupted>>
    /\ UNCHANGED <<cacheVars, retryVars, rndVars, debounceVars>>

\* time passes; listeners of tick/error run before the clock can move
LoopTick ==
    /\ settled = "none"
    /\ now < MaxNow
    /\ now' = now + 1
    /\ emitted' = <<>>
    /\ UNCHANGED <<state, timeoutId, delay, startTime, remaining, timers,
                   inflight, settled, errorListener, unhandled>>
    /\ UNCHANGED <<executing, interrupted, cacheVars, retryVars, rndVars, debounceVars>>

LoopNext ==
    \/ OnError
    \/ Start
    \/ Resume
    \/ Stop
    \/ Pause
    \/ \E ms \in Delays : SetDelay(ms)
    \/ Execute
    \/ ExecuteSettles
    \/ \E t \in TimerSlots : TimerFire(t)
    \/ \E ok \in BOOLEAN : FnSettles(ok)
    \/ RunReschedule
    \/ LoopTick

LoopSpec == LoopInit /\ [][LoopNext]_vars

(* ================================ Cache ================================ *)
maxKeysToScan == 20

Keys == 1..MaxKeys
Values == {1, 2}
\* the ttl arguments the callers pass: omitted, zero, short, long
Ttls == {Nil, 0, 1, 2}

\* Map: position of a key in insertion order (0: absent)
IndexOf(c, k) == IF \E i \in 1..Len(c) : c[i].key = k
                 THEN CHOOSE i \in 1..Len(c) : c[i].key = k
                 ELSE 0
\* Map.set: an existing key keeps its position, a new key goes last
MapSet(c, e) == IF IndexOf(c, e.key) /= 0
                THEN [c EXCEPT ![IndexOf(c, e.key)] = e]
                ELSE Append(c, e)
\* Map.delete
MapDelete(c, k) == SelectSeq(c, LAMBDA e : e.key /= k)

\* the expiry set() stores
ExpiresAt_NoTtl(ttlMs, t) == Nil
ExpiresAt(ttlMs, t) == IF Truthy(ttlMs) THEN t + ttlMs ELSE Nil

\* the expiry test of get() and cleanup()
Expired_Never(data, t) == FALSE
Expired_NullAsZero(data, t) == t > (IF data.expiresAt = Nil THEN 0 ELSE data.expiresAt)
Expired(data, t) == Truthy(data.expiresAt) /\ t > data.expiresAt

\* constructor(cleanupMs)
CacheInit(cleanupMs) ==
    /\ cache = <<>>
    /\ interval = (cleanupMs > 0)
    /\ ret = 0
    /\ now = StartNow

\* set(key, value, ttlMs)
Set(key, value, ttlMs) ==
    /\ cache' = MapSet(cache, [key |-> key, value |-> value, expiresAt |-> ExpiresAt(ttlMs, now)])
    /\ ret' = 0
    /\ UNCHANGED <<interval, now>>
    /\ UNCHANGED <<loopFields, retryVars, rndVars, debounceVars>>

\* get(key)
Get(key) ==
    /\ UNCHANGED <<loopFields, retryVars, rndVars, debounceVars>>
    /\ LET i == IndexOf(cache, key) IN
       /\ IF i = 0
          THEN ret' = 0 /\ UNCHANGED cache
          ELSE IF Expired(cache[i], now)
               THEN ret' = 0 /\ cache' = MapDelete(cache, key)
               ELSE ret' = cache[i].value /\ UNCHANGED cache
       /\ UNCHANGED <<interval, now>>

\* the loop of cleanup(): visit entries in order, delete the expired, stop at the cap
Scan_Uncapped(c, t, keysProcessed) == SelectSeq(c, LAMBDA e : ~Expired(e, t))
RECURSIVE Scan(_, _, _)
Scan(c, t, keysProcessed) ==
    IF c = <<>> THEN <<>>
    ELSE LET kept == IF Expired(Head(c), t) THEN <<>> ELSE <<Head(c)>>
         IN  IF keysProcessed + 1 >= maxKeysToScan
             THEN kept \o Tail(c)
             ELSE kept \o Scan(Tail(c), t, keysProcessed + 1)

\* cleanup(), called by the interval timer
Cleanup ==
    /\ interval
    /\ cache' = (IF Len(cache) = 0 THEN cache ELSE Scan(cache, now, 0))
    /\ ret' = 0
    /\ UNCHANGED <<interval, now>>
    /\ UNCHANGED <<loopFields, retryVars, rndVars, debounceVars>>

\* clear()
Clear ==
    /\ cache' = <<>>
    /\ ret' = 0
    /\ UNCHANGED <<interval, now>>
    /\ UNCHANGED <<loopFields, retryVars, rndVars, debounceVars>>

CacheTick(max) ==
    /\ now < max
    /\ now' = now + 1
    /\ ret' = 0
    /\ UNCHANGED <<cache, interval>>
    /\ UNCHANGED <<loopFields, retryVars, rndVars, debounceVars>>

LoopParked ==
    /\ state = "stopped" /\ timeoutId = 0 /\ delay = 1 /\ startTime = 0 /\ remaining = 0
    /\ timers = {} /\ inflight = 0 /\ settled = "none" /\ errorListener = FALSE
    /\ unhandled = FALSE /\ emitted = <<>> /\ executing = 0 /\ interrupted = FALSE
    /\ RetryParked
    /\ RndParked
    /\ DebounceParked

CacheMaxNow == StartNow + CacheSteps

CacheStart == LoopParked /\ \E cleanupMs \in {0, 60000} : CacheInit(cleanupMs)

CacheNext ==
    \/ \E k \in Keys, v \in Values, ttl \in Ttls : Set(k, v, ttl)
    \/ \E k \in Keys : Get(k)
    \/ Cleanup
    \/ Clear
    \/ CacheTick(CacheMaxNow)

CacheSpec == CacheStart /\ [][CacheNext]_vars

\* The caller of the README example: `new Cache(60000)`, entries stored in the
\* first CacheSteps ms, then read again once more than 60000 ms have passed.
ReadmeCleanupMs == 60000

EarlySet(key, value, ttlMs) ==
    /\ now <= CacheMaxNow
    /\ Set(key, value, ttlMs)

CacheSleep(ms) ==
    /\ now <= CacheMaxNow
    /\ now' = now + ms
    /\ ret' = 0
    /\ UNCHANGED <<cache, interval>>
    /\ UNCHANGED <<loopFields, retryVars, rndVars, debounceVars>>

ReadmeStart == LoopParked /\ CacheInit(ReadmeCleanupMs)

ReadmeNext ==
    \/ \E k \in Keys, v \in Values, ttl \in Ttls : EarlySet(k, v, ttl)
    \/ \E k \in Keys : Get(k)
    \/ Cleanup
    \/ CacheTick(CacheMaxNow)
    \/ CacheSleep(ReadmeCleanupMs + 1)

ReadmeSpec == ReadmeStart /\ [][ReadmeNext]_vars

\* A bulk-loading caller: fresh keys in ascending order, the entries without
\* expiry first, and a sweep that is always enabled.
SweepMaxNow == StartNow + SweepSteps
LastKey(c) == IF c = <<>> THEN 0 ELSE c[Len(c)].key

SweepSet(ttl) ==
    /\ LastKey(cache) < MaxEntries
    /\ ttl = Nil => \A i \in 1..Len(cache) : cache[i].expiresAt = Nil
    /\ Set(LastKey(cache) + 1, 1, ttl)

SweepStart == LoopParked /\ CacheInit(60000)

SweepNext ==
    \/ \E ttl \in {Nil, 1} : SweepSet(ttl)
    \/ Cleanup
    \/ CacheTick(SweepMaxNow)

SweepSpec == SweepStart /\ [][SweepNext]_vars

\* setInterval keeps calling cleanup()
SweepFairSpec == SweepSpec /\ WF_vars(Cleanup)

(* ================================ retry ================================ *)
DefaultRetries == 3
DefaultDelay == 500
\* Math.random() * 200 lies in [0, MaxJitter)
MaxJitter == 200
Jitters == {0, 100, MaxJitter - 1}

RetryInit ==
    /\ options \in [retries : {Nil} \cup (0..MaxRetries), delay : {Nil, 1},
                    timeout : {Nil, 0, 1}, signal : BOOLEAN]
    /\ retries = (IF options.retries = Nil THEN DefaultRetries ELSE options.retries)
    /\ retryDelay = (IF options.delay = Nil THEN DefaultDelay ELSE options.delay)
    /\ aborted = FALSE
    /\ controllerAborted = FALSE
    /\ attemptTimer = FALSE
    /\ totalDelay = 0
    /\ calls = 0
    /\ outcome = <<"none", 0>>
    /\ pc = "idle"

\* the signal fn receives: the caller's without a timeout, the controller's with one
FnSignal == IF ~Truthy(options.timeout)
            THEN (IF options.signal THEN "signal" ELSE "none")
            ELSE "controller"

\* `aborted` of the signal fn was called with
FnSignalAborted == CASE FnSignal = "signal" -> aborted
                     [] FnSignal = "controller" -> controllerAborted
                     [] OTHER -> FALSE

\* entry of retry(): the already-aborted check, then executeWithTimeout() up to the await
Enter ==
    IF options.signal /\ aborted
    THEN /\ pc' = "done"
         /\ outcome' = <<"Cancelled", calls>>
         /\ UNCHANGED <<calls, controllerAborted, attemptTimer>>
    ELSE /\ pc' = "attempt"
         /\ calls' = calls + 1
         /\ controllerAborted' = FALSE
         /\ attemptTimer' = Truthy(options.timeout)
         /\ UNCHANGED outcome

\* the caller calls retry(fn, options)
RetryCall ==
    /\ pc = "idle"
    /\ Enter
    /\ UNCHANGED <<options, retries, retryDelay, aborted, totalDelay>>
    /\ UNCHANGED <<loopFields, now, cacheVars, rndVars, debounceVars>>

\* the "abort" listener of the backoff wait rejects the wait
WaitListens_Polled == FALSE
WaitListens == options.signal

\* the caller aborts options.signal
Abort ==
    /\ options.signal
    /\ ~aborted
    /\ aborted' = TRUE
    /\ IF pc = "backoff" /\ WaitListens
       THEN /\ pc' = "done"
            /\ outcome' = <<"Cancelled", calls>>
            /\ totalDelay' = 0
       ELSE UNCHANGED <<pc, outcome, totalDelay>>
    /\ UNCHANGED <<options, retries, retryDelay, controllerAborted, attemptTimer, calls>>
    /\ UNCHANGED <<loopFields, now, cacheVars, rndVars, debounceVars>>

\* the per-attempt timer fires: controller.abort()
TimeoutFires ==
    /\ pc = "attempt"
    /\ attemptTimer
    /\ attemptTimer' = FALSE
    /\ controllerAborted' = TRUE
    /\ UNCHANGED <<options, retries, retryDelay, aborted, totalDelay, calls, outcome, pc>>
    /\ UNCHANGED <<loopFields, now, cacheVars, rndVars, debounceVars>>

\* fn's promise fulfils
FnResolves ==
    /\ pc = "attempt"
    /\ attemptTimer' = FALSE
    /\ pc' = "done"
    /\ outcome' = <<"ok", calls>>
    /\ UNCHANGED <<options, retries, retryDelay, aborted, controllerAborted, totalDelay, calls>>
    /\ UNCHANGED <<loopFields, now, cacheVars, rndVars, debounceVars>>

\* what executeWithTimeout() throws when fn rejects
AttemptError == IF Truthy(options.timeout) /\ controllerAborted
                THEN "Timeout" ELSE "OperationFailed"

\* the test that ends the retries
Exhausted_OffByOne == retries <= 1
Exhausted == retries <= 0

\* fn's promise rejects: the catch block of retry()
FnRejects(jitter) ==
    /\ pc = "attempt"
    /\ attemptTimer' = FALSE
    /\ IF (options.signal /\ aborted) \/ Exhausted
       THEN /\ pc' = "done"
            /\ outcome' = <<AttemptError, calls>>
            /\ UNCHANGED totalDelay
       ELSE /\ pc' = "backoff"
            /\ totalDelay' = retryDelay + jitter
            /\ UNCHANGED outcome
    /\ UNCHANGED <<options, retries, retryDelay, aborted, controllerAborted, calls>>
    /\ UNCHANGED <<loopFields, now, cacheVars, rndVars, debounceVars>>

\* the backoff timer fires: retry(fn, {...options, retries - 1, delay * 2})
BackoffElapses_Linear ==
    /\ pc = "backoff"
    /\ retries' = retries - 1
    /\ retryDelay' = retryDelay + (IF options.delay = Nil THEN DefaultDelay ELSE options.delay)
    /\ totalDelay' = 0
    /\ Enter
    /\ UNCHANGED <<options, aborted>>
    /\ UNCHANGED <<loopFields, now, cacheVars, rndVars, debounceVars>>

BackoffElapses ==
    /\ pc = "backoff"
    /\ retries' = retries - 1
    /\ retryDelay' = retryDelay * 2
    /\ totalDelay' = 0
    /\ Enter
    /\ UNCHANGED <<options, aborted>>
    /\ UNCHANGED <<loopFields, now, cacheVars, rndVars, debounceVars>>

RetryStart ==
    /\ RetryInit
    /\ state = "stopped" /\ timeoutId = 0 /\ delay = 1 /\ startTime = 0 /\ remaining = 0
    /\ timers = {} /\ inflight = 0 /\ settled = "none" /\ errorListener = FALSE
    /\ unhandled = FALSE /\ emitted = <<>> /\ executing = 0 /\ interrupted = FALSE /\ now = StartNow
    /\ cache = <<>> /\ interval = FALSE /\ ret = 0
    /\ RndParked
    /\ DebounceParked

RetryNext ==
    \/ RetryCall
    \/ Abort
    \/ TimeoutFires
    \/ FnResolves
    \/ \E jitter \in Jitters : FnRejects(jitter)
    \/ BackoffElapses

RetrySpec == RetryStart /\ [][RetryNext]_vars

(* =============================== random ================================ *)
\* A 32-bit integer is the pair <<high 16 bits, low 16 bits>>. The generator's
\* seed is kept modulo 2^32: only ToInt32 of it is ever used.
ToWord(n) == <<(n \div 65536) % 65536, n % 65536>>

\* (a + b) | 0
Add32(a, b) ==
    LET lo == a[2] + b[2]
    IN  <<(a[1] + b[1] + (lo \div 65536)) % 65536, lo % 65536>>

RECURSIVE Xor(_, _, _)
\* x ^ y on the lowest `bits` bits
Xor(x, y, bits) ==
    IF bits = 0 THEN 0
    ELSE ((x + y) % 2) + 2 * Xor(x \div 2, y \div 2, bits - 1)

RECURSIVE Or(_, _, _)
\* x | y on the lowest `bits` bits
Or(x, y, bits) ==
    IF bits = 0 THEN 0
    ELSE (IF x % 2 = 1 \/ y % 2 = 1 THEN 1 ELSE 0) + 2 * Or(x \div 2, y \div 2, bits - 1)

Xor32(a, b) == <<Xor(a[1], b[1], 16), Xor(a[2], b[2], 16)>>
Or32(a, b) == <<Or(a[1], b[1], 16), Or(a[2], b[2], 16)>>

\* a >>> k, for k < 16
Shr(a, k) ==
    LET p == 2^k
    IN  <<a[1] \div p, (a[2] \div p) + (a[1] % p) * (65536 \div p)>>

\* the 32-bit product of two 16-bit halves
Mul16(x, y) ==
    LET p == (x \div 256) * y
        q == (x % 256) * y
        lo == (p % 256) * 256 + (q % 65536)
    IN  <<((p \div 256) + (q \div 65536) + (lo \div 65536)) % 65536, lo % 65536>>

\* Math.imul(a, b)
Imul(a, b) ==
    LET low == Mul16(a[2], b[2])
        cross == Mul16(a[1], b[2])[2] + Mul16(a[2], b[1])[2]
    IN  <<(low[1] + cross) % 65536, low[2]>>

\* 0x6d2b79f5
Increment == ToWord(1831565813)

\* prng(seed): the closure's `seed` after `seed += 0x6d2b79f5`
Advance(acc) == Add32(acc, Increment)

\* prng(seed): the value returned for t = seed, as the numerator of a fraction of 2^32
Mix(acc) ==
    LET t1 == Imul(Xor32(acc, Shr(acc, 15)), Or32(acc, <<0, 1>>))
        t2 == Xor32(t1, Add32(t1, Imul(Xor32(t1, Shr(t1, 7)), Or32(t1, <<0, 61>>))))
    IN  Xor32(t2, Shr(t2, 14))

\* Math.random(): sample values of [0, 1) as numerators of a fraction of 2^32
MathRandom == {<<0, 0>>, <<32768, 0>>, <<65535, 65535>>}

\* Math.floor(r * m) for r = w / 2^32 and a small integer m
FloorMul(w, m) == (w[1] * m + ((w[2] * m) \div 65536)) \div 65536

\* r < p for r = w / 2^32 and p = <<numerator, denominator>>; false for p = NaN
Below(w, p) == p[2] /= 0 /\ FloorMul(w, p[2]) < p[1]

\* The weights are integers and the scaled weights fractions of totalWeight,
\* kept exactly as <<numerator, denominator>>; denominator 0 is NaN (0 / 0).
Undefined == <<>>
One == <<1, 1>>

RECURSIVE Sum(_)
\* weights.reduce((a, b) => a + b, 0)
Sum(ws) == IF ws = <<>> THEN 0 ELSE Head(ws) + Sum(Tail(ws))

\* w < 1
LessThanOne(w) == w[2] /= 0 /\ w[1] < w[2]

\* scaledWeights[l] + scaledWeights[s] - 1
Leftover_NoDeficit(wl, ws) == <<wl[1] + ws[1], wl[2]>>
Leftover(wl, ws) == <<wl[1] + ws[1] - wl[2], wl[2]>>

\* the two draining loops: every index still on a stack gets prob 1
Drain(pr, small, large) ==
    [i \in DOMAIN pr |->
        IF \E j \in 1..Len(small) : small[j] = i THEN One
        ELSE IF \E j \in 1..Len(large) : large[j] = i THEN One
        ELSE pr[i]]

RECURSIVE AliasLoop(_, _, _, _, _)
\* while (small.length && large.length) { ... }, then the draining loops
AliasLoop(scaledWeights, small, large, pr, al) ==
    IF small /= <<>> /\ large /= <<>>
    THEN LET s == small[Len(small)]
             l == large[Len(large)]
             smallPopped == SubSeq(small, 1, Len(small) - 1)
             largePopped == SubSeq(large, 1, Len(large) - 1)
             left == Leftover(scaledWeights[l], scaledWeights[s])
         IN  AliasLoop([scaledWeights EXCEPT ![l] = left],
                       IF LessThanOne(left) THEN Append(smallPopped, l) ELSE smallPopped,
                       IF LessThanOne(left) THEN largePopped ELSE Append(largePopped, l),
                       [pr EXCEPT ![s] = scaledWeights[s]],
                       [al EXCEPT ![s] = l])
    ELSE [prob |-> Drain(pr, small, large), alias |-> al]

\* the table sampler() builds from the weights
Table(ws) ==
    LET len == Len(ws)
        totalWeight == Sum(ws)
        scaledWeights == [i \in 1..len |-> <<ws[i] * len, totalWeight>>]
        indexes == [i \in 1..len |-> i]
    IN  AliasLoop(scaledWeights,
                  SelectSeq(indexes, LAMBDA i : LessThanOne(scaledWeights[i])),
                  SelectSeq(indexes, LAMBDA i : ~LessThanOne(scaledWeights[i])),
                  [i \in 1..len |-> Undefined],
                  [i \in 1..len |-> 0])

\* `seed ? prng(seed) : undefined`
BoundGenerator(seed) == IF Truthy(seed) THEN ToWord(seed) ELSE Undefined

\* sampler(items, selector, seed), called twice with the same arguments
Sampler ==
    /\ ~ready
    /\ prob' = Table(weights).prob
    /\ alias' = Table(weights).alias
    /\ callRandom' = [s \in Twins |-> BoundGenerator(seedArg)]
    /\ ready' = TRUE
    /\ UNCHANGED <<weights, seedArg, picks, gen, drawn>>
    /\ UNCHANGED <<loopVars, cacheVars, retryVars, debounceVars>>

\* pick(seed) of sampler s; r1 and r2 are what Math.random() returns if it is used
Pick(s, seed, r1, r2) ==
    /\ ready
    /\ Len(picks[s]) < MaxDraws
    /\ LET own == seed = Nil /\ callRandom[s] /= Undefined
           seeded == seed /= Nil \/ own
           a1 == Advance(IF seed /= Nil THEN ToWord(seed) ELSE callRandom[s])
           a2 == Advance(a1)
           u1 == IF seeded THEN Mix(a1) ELSE r1
           u2 == IF seeded THEN Mix(a2) ELSE r2
           len == Len(weights)
           i == FloorMul(u1, len) + 1
           item == IF len = 0 THEN 0
                   ELSE IF Below(u2, prob[i]) THEN i ELSE alias[i]
       IN  /\ picks' = [picks EXCEPT ![s] = Append(@, item)]
           /\ callRandom' = [callRandom EXCEPT ![s] = IF own THEN a2 ELSE @]
    /\ UNCHANGED <<weights, seedArg, prob, alias, ready, gen, drawn>>
    /\ UNCHANGED <<loopVars, cacheVars, retryVars, debounceVars>>

OthersParked ==
    /\ state = "stopped" /\ timeoutId = 0 /\ delay = 1 /\ startTime = 0 /\ remaining = 0
    /\ timers = {} /\ inflight = 0 /\ settled = "none" /\ errorListener = FALSE
    /\ unhandled = FALSE /\ emitted = <<>> /\ executing = 0 /\ interrupted = FALSE /\ now = StartNow
    /\ cache = <<>> /\ interval = FALSE /\ ret = 0
    /\ RetryParked
    /\ DebounceParked

\* the seeds handed to sampler() and pick(): omitted, zero, small, larger
SeedArgs == {Nil, 0, 1, 42}

SamplerInit ==
    /\ weights \in UNION {[1..n -> 0..MaxWeight] : n \in 0..MaxItems}
    /\ seedArg \in SeedArgs
    /\ prob = <<>> /\ alias = <<>> /\ ready = FALSE
    /\ callRandom = [s \in Twins |-> Undefined] /\ picks = [s \in Twins |-> <<>>]
    /\ gen = [g \in Twins |-> <<>>] /\ drawn = [g \in Twins |-> <<>>]
    /\ OthersParked

\* one sampler, every weight vector, one draw
SamplerNext ==
    \/ Sampler
    \/ \E seed \in SeedArgs, r1 \in MathRandom, r2 \in MathRandom :
          picks[1] = <<>> /\ Pick(1, seed, r1, r2)

SamplerSpec == SamplerInit /\ [][SamplerNext]_vars

\* two samplers built from the same items, weights and seed, drawing with pick()
TwinWeights == {<<1, 1, 2>>, <<1, 3>>}

TwinInit ==
    /\ weights \in TwinWeights
    /\ seedArg \in SeedArgs
    /\ prob = <<>> /\ alias = <<>> /\ ready = FALSE
    /\ callRandom = [s \in Twins |-> Undefined] /\ picks = [s \in Twins |-> <<>>]
    /\ gen = [g \in Twins |-> <<>>] /\ drawn = [g \in Twins |-> <<>>]
    /\ OthersParked

TwinNext ==
    \/ Sampler
    \/ \E s \in Twins, r1 \in MathRandom, r2 \in MathRandom : Pick(s, Nil, r1, r2)

TwinSpec == TwinInit /\ [][TwinNext]_vars

\* prng(seed), called twice with the same seed
PrngSeeds == (0..9) \cup {65535, 65536, 2147483647}

\* one call of generator g: only g's own closure variable changes
Closure_Shared(gens, g) == [h \in DOMAIN gens |-> Advance(gens[g])]
Closure(gens, g) == [gens EXCEPT ![g] = Advance(gens[g])]

Draw(g) ==
    /\ Len(drawn[g]) < MaxDraws
    /\ gen' = Closure(gen, g)
    /\ drawn' = [drawn EXCEPT ![g] = Append(@, Mix(gen'[g]))]
    /\ UNCHANGED <<weights, seedArg, prob, alias, ready, callRandom, picks>>
    /\ UNCHANGED <<loopVars, cacheVars, retryVars, debounceVars>>

PrngInit ==
    /\ seedArg \in PrngSeeds
    /\ gen = [g \in Twins |-> ToWord(seedArg)]
    /\ drawn = [g \in Twins |-> <<>>]
    /\ weights = <<>> /\ prob = <<>> /\ alias = <<>> /\ ready = FALSE
    /\ callRandom = [s \in Twins |-> <<>>] /\ picks = [s \in Twins |-> <<>>]
    /\ OthersParked

PrngNext == \E g \in Twins : Draw(g)

PrngSpec == PrngInit /\ [][PrngNext]_vars

(* ============================== debounce =============================== *)
Waits == 1..MaxWait
\* the argument lists the callers pass
DebounceArgs == {1, 2}
DebounceMaxNow == StartNow + DebounceSteps
\* every <<handle, fire time, args>> a timer of debounced() can have
DebounceSlots == TimerIds \X (StartNow..(DebounceMaxNow + MaxWait)) \X DebounceArgs

Calls == SelectSeq(log, LAMBDA e : e[1] = "call")
Cancels == SelectSeq(log, LAMBDA e : e[1] = "cancel")

\* clearTimeout(id)
ClearTimeout(ts, id) == {t \in ts : t[1] /= id}
\* setTimeout returns a handle no live timer and no held variable has
FreshId(ts) == CHOOSE i \in TimerIds : i /= debounceId /\ \A t \in ts : t[1] /= i

\* debounce(fn, wait, options)
DebounceInit ==
    /\ wait \in Waits
    /\ leading \in BOOLEAN
    /\ debounceId = 0
    /\ pending = {}
    /\ log = <<>>
    /\ state = "stopped" /\ timeoutId = 0 /\ delay = 1 /\ startTime = 0 /\ remaining = 0
    /\ timers = {} /\ inflight = 0 /\ settled = "none" /\ errorListener = FALSE
    /\ unhandled = FALSE /\ emitted = <<>> /\ executing = 0 /\ interrupted = FALSE /\ now = StartNow
    /\ cache = <<>> /\ interval = FALSE /\ ret = 0
    /\ RetryParked
    /\ RndParked

\* debounced(...args)
Debounced_KeepsTimer(args) ==
    LET callNow == leading /\ debounceId = 0
        id == FreshId(pending)
    IN  /\ Len(Calls) < MaxCalls
        /\ pending' = pending \cup {<<id, now + wait, args>>}
        /\ debounceId' = id
        /\ log' = log \o <<<<"call", now, args>>>>
                      \o (IF callNow THEN <<<<"exec", now, args>>>> ELSE <<>>)
        /\ UNCHANGED <<wait, leading>>
        /\ UNCHANGED <<loopVars, cacheVars, retryVars, rndVars>>

Debounced(args) ==
    LET callNow == leading /\ debounceId = 0
        cleared == IF debounceId /= 0 THEN ClearTimeout(pending, debounceId) ELSE pending
        id == FreshId(cleared)
    IN  /\ Len(Calls) < MaxCalls
        /\ pending' = cleared \cup {<<id, now + wait, args>>}
        /\ debounceId' = id
        /\ log' = log \o <<<<"call", now, args>>>>
                      \o (IF callNow THEN <<<<"exec", now, args>>>> ELSE <<>>)
        /\ UNCHANGED <<wait, leading>>
        /\ UNCHANGED <<loopVars, cacheVars, retryVars, rndVars>>

\* the timer of debounced() fires
DebounceFire(t) ==
    /\ t \in pending
    /\ t[2] <= now
    /\ pending' = pending \ {t}
    /\ debounceId' = 0
    /\ log' = (IF ~leading THEN Append(log, <<"exec", now, t[3]>>) ELSE log)
    /\ UNCHANGED <<wait, leading>>
    /\ UNCHANGED <<loopVars, cacheVars, retryVars, rndVars>>

\* debounced.cancel()
Cancel_KeepsTimer ==
    /\ Len(Cancels) < MaxCalls
    /\ debounceId' = 0
    /\ log' = Append(log, <<"cancel", now, 0>>)
    /\ UNCHANGED <<wait, leading, pending>>
    /\ UNCHANGED <<loopVars, cacheVars, retryVars, rndVars>>

Cancel ==
    /\ Len(Cancels) < MaxCalls
    /\ IF debounceId /= 0
       THEN pending' = ClearTimeout(pending, debounceId) /\ debounceId' = 0
       ELSE UNCHANGED <<pending, debounceId>>
    /\ log' = Append(log, <<"cancel", now, 0>>)
    /\ UNCHANGED <<wait, leading>>
    /\ UNCHANGED <<loopVars, cacheVars, retryVars, rndVars>>

\* time passes
DebounceTick ==
    /\ now < DebounceMaxNow
    /\ now' = now + 1
    /\ UNCHANGED <<state, timeoutId, delay, startTime, remaining, timers,
                   inflight, settled, errorListener, unhandled, emitted, executing,
              interrupted>>
    /\ UNCHANGED <<cacheVars, retryVars, rndVars, debounceVars>>

DebounceNext ==
    \/ \E args \in DebounceArgs : Debounced(args)
    \/ \E t \in DebounceSlots : DebounceFire(t)
    \/ Cancel
    \/ DebounceTick

DebounceSpec == DebounceInit /\ [][DebounceNext]_vars

(* ============================ Loop claims ============================== *)
\* C1: at most one loop-started invocation of the user function is in flight
\* at any instant, whatever the interleaving of start, pause, resume, stop,
\* setDelay, timer firings and completions.
C1_SingleFlight == inflight <= 1

\* the loop is running and waiting on the timer it holds
WaitingOnTimer == state = "running" /\ Deadline /= -1 /\ inflight = 0 /\ settled = "none"

\* C4: every pause() of a running loop that waits on its timer records and
\* emits the exact time left until that timer would have fired.
C4_PauseRemainingExact ==
    [][(Pause /\ WaitingOnTimer) =>
          /\ remaining' = Max(0, Deadline - now)
          /\ emitted' = <<Ev("pause", Max(0, Deadline - now))>>]_vars

C6_FailureContained ==
    [][/\ (FnSettles(FALSE) /\ state = "running") =>
             /\ emitted' = <<Ev("error", 0)>>
             /\ settled' = "error"
             /\ state' = "running"
             /\ ~unhandled'
       /\ (RunReschedule /\ settled = "error" /\ state = "running") =>
             /\ state' = "running"
             /\ Deadline' = now + delay]_vars

(* ============================ Cache claims ============================= *)
\* C2: get(key) never returns a value whose expiresAt is earlier than the
\* current time, whether or not a sweep has run since the entry expired; an
\* entry it finds stale is deleted and null is returned.
C2_GetNeverStale ==
    [][\A k \in Keys :
         (Get(k) /\ IndexOf(cache, k) /= 0) =>
            LET data == cache[IndexOf(cache, k)] IN
            IF data.expiresAt /= Nil /\ data.expiresAt < now
            THEN ret' = 0 /\ IndexOf(cache', k) = 0
            ELSE ret' = data.value]_vars

\* a get that returned the value of an entry at the very instant of its expiry
C2_Witness ==
    /\ ret /= 0
    /\ \E i \in 1..Len(cache) : cache[i].value = ret /\ cache[i].expiresAt = now
    /\ \E i \in 1..Len(cache) : cache[i].expiresAt /= Nil /\ cache[i].expiresAt < now

AnyExpired == \E i \in 1..Len(cache) : cache[i].expiresAt /= Nil /\ cache[i].expiresAt < now

\* C3: with the periodic sweep enabled, every entry that has expired is
\* eventually removed by the sweep ticks, whatever the number and order of the
\* expired and unexpired entries.
C3_ExpiredEventuallySwept == (interval /\ AnyExpired) ~> ~AnyExpired

(* ============================ retry claims ============================= *)
\* C7: an operation that fails on every attempt, called with retries = n
\* (default 3) and never cancelled, is invoked exactly n + 1 times, and the
\* caller then observes the failure of the last attempt.
C7_RetryExhaustion ==
    (pc = "done" /\ ~aborted /\ outcome[1] /= "ok") =>
        /\ calls = (IF options.retries = Nil THEN 3 ELSE options.retries) + 1
        /\ outcome[1] \in {"OperationFailed", "Timeout"}
        /\ outcome[2] = calls

\* the default of three retries ran out after four invocations
C7_Witness ==
    /\ pc = "done" /\ ~aborted /\ options.retries = Nil
    /\ outcome = <<"OperationFailed", 4>>

\* C8: an abort of the cancel signal during a backoff wait ends the wait at
\* once with a Cancelled result, and no further attempt of the operation starts.
C8_CancelMidBackoff ==
    [][/\ (Abort /\ pc = "backoff") =>
             (pc' = "done" /\ outcome'[1] = "Cancelled" /\ calls' = calls)
       /\ pc = "done" => (pc' = "done" /\ calls' = calls /\ outcome' = outcome)]_vars

\* retry was cancelled in a backoff wait after a failed attempt
C8_Witness ==
    /\ pc = "done" /\ aborted /\ outcome[1] = "Cancelled" /\ calls >= 1 /\ retries >= 1

\* C9: an attempt that fails after cancellation was requested makes retry fail
\* at once with a Cancelled result, distinguishable from the operation's own
\* failure, and no retry follows.
C9_CancelledIsDistinguishable ==
    [][((\E jitter \in Jitters : FnRejects(jitter)) /\ aborted) =>
          (pc' = "done" /\ outcome'[1] = "Cancelled" /\ calls' = calls)]_vars

\* C10: when the per-attempt timeout elapses before the attempt has settled,
\* the attempt is abandoned as a timeout failure: retry moves on to the backoff
\* or settles with the timeout failure, and no longer waits on the attempt.
C10_TimeoutAbandonsAttempt ==
    [][TimeoutFires =>
          /\ pc' \in {"backoff", "done"}
          /\ pc' = "done" => outcome'[1] = "Timeout"]_vars

\* C11: in every reachable state, set(k, v, t) with t > 0 can only store v with
\* the expiry now + t; a get(k) of an entry before its expiry (in particular
\* at once after the set) can only return its value and leave the table
\* alone, and a get(k) made more than t after the set can only return null
\* and remove the entry.
C11_TtlCorrectness ==
    \A k \in Keys :
      /\ \A v \in Values, t \in Ttls :
            t > 0 =>
              ~ENABLED (/\ Set(k, v, t)
                        /\ ~(/\ cache'[IndexOf(cache', k)].value = v
                             /\ cache'[IndexOf(cache', k)].expiresAt = now + t))
      /\ IndexOf(cache, k) /= 0 =>
            LET data == cache[IndexOf(cache, k)] IN
            /\ (data.expiresAt /= Nil /\ now < data.expiresAt) =>
                  ~ENABLED (Get(k) /\ ~(ret' = data.value /\ cache' = cache))
            /\ (data.expiresAt /= Nil /\ now > data.expiresAt) =>
                  ~ENABLED (Get(k) /\ ~(ret' = 0 /\ IndexOf(cache', k) = 0))

\* a get returned the value of an entry whose ttl has not yet run out
C11_Witness ==
    /\ ret /= 0
    /\ \E i \in 1..Len(cache) : cache[i].value = ret /\ cache[i].expiresAt > now

\* C12: one sweep tick examines the first 20 entries only, so it removes at
\* most 20 and leaves every later entry in place; when all entries are expired
\* it removes 20 of them, or all that are left, so that N expired entries are
\* gone after ceil(N / 20) ticks and not earlier.
C12_BoundedSweep ==
    [][Cleanup =>
         LET removed == Len(cache) - Len(cache') IN
         /\ removed >= 0 /\ removed <= 20
         /\ \A i \in 21..Len(cache) : cache'[i - removed] = cache[i]
         /\ (\A i \in 1..Len(cache) :
                cache[i].expiresAt /= Nil /\ cache[i].expiresAt < now)
               => Len(cache') = Max(0, Len(cache) - 20)]_vars

\* what a tick left of more than 20 expired entries: the entry past the cap
C12_Witness ==
    /\ Len(cache) = 1
    /\ cache[1].key > 20
    /\ cache[1].expiresAt /= Nil /\ cache[1].expiresAt < now

\* C13: in a cache constructed as new Cache(60000) an entry stored without a
\* ttl of its own expires 60000 ms after it was set: once more than 60000 ms
\* have passed since the last set, no get returns a value any more.
C13_GlobalTtl == now > CacheMaxNow + ReadmeCleanupMs => ret = 0

(* ============================ random claims ============================ *)
\* C14: for a non-empty item list with non-negative weights of positive total
\* the construction ends with every prob[i] in [0, 1], alias[i] a valid index
\* whenever prob[i] < 1, and (1/n) * (prob[i] + the sum over j with
\* alias[j] = i of (1 - prob[j])) equal to weights[i] / total. Both sides are
\* multiplied by n * total; the denominators of prob are 1 or total.
C14_AliasTableCorrect ==
    (ready /\ Len(weights) >= 1 /\ Sum(weights) > 0) =>
        LET n == Len(weights)
            total == Sum(weights)
            P(j) == (prob[j][1] * total) \div prob[j][2]
        IN  \A i \in 1..n :
              /\ prob[i][2] > 0 /\ total % prob[i][2] = 0
              /\ 0 <= prob[i][1] /\ prob[i][1] <= prob[i][2]
              /\ prob[i][1] < prob[i][2] => alias[i] \in 1..n
              /\ P(i) + Sum([j \in 1..n |-> IF alias[j] = i THEN total - P(j) ELSE 0])
                    = weights[i] * n

\* a table in which an item first received from a lighter one and then, left
\* with less than 1, was itself paired with another item
C14_Witness ==
    /\ ready
    /\ \E i, j \in 1..Len(weights) :
          /\ alias[j] = i /\ alias[i] /= 0
          /\ 0 < prob[i][1] /\ prob[i][1] < prob[i][2]

\* C15: sampler() never returns a sampler for weights that sum to 0 (it
\* signals an error to the caller instead).
C15_ZeroTotalRejected == ready => Sum(weights) /= 0

\* C16: two samplers built from the same items, weights and integer seed
\* return the same sequence of pick() results.
C16_SeededSamplersAgree ==
    seedArg /= Nil =>
        \A i \in DOMAIN picks[1] \cap DOMAIN picks[2] : picks[1][i] = picks[2][i]

RECURSIVE AdvanceBy(_, _)
\* the closure's seed after k draws
AdvanceBy(acc, k) == IF k = 0 THEN acc ELSE AdvanceBy(Advance(acc), k - 1)

\* C17: two generators made by prng(s) return the same sequence, however
\* their draws interleave; the i-th value of a generator depends only on s
\* and i.
C17_PrngDeterministic ==
    /\ \A i \in DOMAIN drawn[1] \cap DOMAIN drawn[2] : drawn[1][i] = drawn[2][i]
    /\ \A g \in Twins : \A i \in DOMAIN drawn[g] :
          drawn[g][i] = Mix(AdvanceBy(ToWord(seedArg), i))

\* both generators have drawn, one of them more often than the other
C17_Witness ==
    /\ Len(drawn[1]) = 3 /\ Len(drawn[2]) = 2
    /\ gen[1] /= gen[2]

(* ========================= Loop claims, continued ====================== *)
\* C18: stop() moves the loop to stopped, cancels the pending timer, resets
\* remaining and emits `stop` exactly when the loop was not stopped already;
\* while the loop stays stopped no timer is pending and no invocation begins,
\* and only start() takes it out of stopped.
C18_StopHalts ==
    [][/\ Stop =>
             /\ state' = "stopped"
             /\ remaining' = 0
             /\ timers' = {}
             /\ inflight' = inflight
             /\ emitted' = (IF state /= "stopped" THEN <<Ev("stop", 0)>> ELSE <<>>)
       /\ (state = "stopped" /\ state' = "stopped") =>
             (inflight' <= inflight /\ timers' = {})
       /\ (state = "stopped" /\ state' /= "stopped") =>
             emitted' = <<Ev("start", 0)>>]_vars

\* a loop that had armed a wait has just been stopped
C18_Witness ==
    /\ state = "stopped"
    /\ emitted = <<Ev("stop", 0)>>
    /\ startTime >= StartNow
    /\ timers = {} /\ remaining = 0

\* C19: start() outside stopped, pause() outside running and resume()
\* outside paused leave the state, the pending timer, startTime and remaining
\* unchanged, emit no event and start no invocation.
C19_TransitionGuards ==
    [][(\/ Start /\ state /= "stopped"
        \/ Pause /\ state /= "running"
        \/ Resume /\ state /= "paused") =>
          /\ UNCHANGED <<state, timeoutId, timers, startTime, remaining, inflight>>
          /\ emitted' = <<>>]_vars

\* a paused loop with time left on which a call has emitted nothing
C19_Witness ==
    /\ state = "paused"
    /\ remaining > 0
    /\ emitted = <<>>
    /\ timers = {} /\ inflight = 0

\* C20: setDelay(ms) leaves the state, the pending timer and its deadline
\* unchanged, and the wait in progress keeps the interval it was armed with:
\* a pause at the very start of that wait records the whole remaining time of
\* the pending timer, whatever setDelay has been called since it was armed.
C20_SetDelayFutureOnly ==
    [][/\ (\E ms \in Delays : SetDelay(ms)) =>
             UNCHANGED <<state, timeoutId, timers, startTime, remaining, inflight>>
       /\ (Pause /\ WaitingOnTimer /\ now = startTime) =>
             remaining' = Deadline - now]_vars

\* C21: execute() invokes the user function once in any state of the loop,
\* emits no event, and leaves the state, the pending timer, startTime,
\* remaining and the loop's own invocations unchanged; the completion of that
\* invocation emits nothing and changes nothing either.
C21_ExecuteIsolated ==
    /\ [](executing < MaxInflight => ENABLED Execute)
    /\ [][(Execute \/ ExecuteSettles) =>
             /\ executing' = (IF Execute THEN executing + 1 ELSE executing - 1)
             /\ emitted' = <<>>
             /\ UNCHANGED <<state, timeoutId, timers, startTime, remaining,
                            delay, inflight, settled, unhandled>>]_vars

\* an invocation made by execute() is pending on a paused loop
C21_Witness ==
    /\ executing = 1
    /\ state = "paused"
    /\ inflight = 0 /\ timers = {}

C23_CancelInterruptsAttempt ==
    [][(Abort /\ pc = "attempt") => FnSignalAborted']_vars

\* C24: while the k-th attempt runs and in the wait that follows its failure
\* (the wait before the k-th retry), the base delay is the initial delay times
\* 2^(k-1) and the retries left are the initial count minus (k-1); the wait
\* lasts the base delay plus a jitter that is at least 0 and below 200 ms.
C24_ExponentialBackoff ==
    LET initialDelay == IF options.delay = Nil THEN 500 ELSE options.delay
        initialRetries == IF options.retries = Nil THEN 3 ELSE options.retries
    IN  /\ pc \in {"attempt", "backoff"} =>
              /\ retryDelay = initialDelay * 2^(calls - 1)
              /\ retries = initialRetries - (calls - 1)
        /\ pc = "backoff" =>
              /\ totalDelay - retryDelay >= 0
              /\ totalDelay - retryDelay < 200

\* the wait before the third retry of a call with the default options
C24_Witness ==
    /\ pc = "backoff" /\ calls = 3
    /\ options.delay = Nil /\ options.retries = Nil
    /\ retryDelay = 2000 /\ retries = 1 /\ totalDelay = 2199

(* =========================== debounce claims =========================== *)
\* C25: without the immediate option, every execution of the wrapped function
\* directly follows, in the history of the debounced function, a call made at
\* least `wait` ms earlier, and carries that call's arguments: no execution
\* follows a call that a later call or a cancel() superseded, none follows
\* another execution, and so a burst of calls less than `wait` apart yields at
\* most one execution, that of its last call; as long as that call is neither
\* superseded nor cancelled, its timer stays pending for `wait` ms after it.
C25_Debounce ==
    ~leading =>
      /\ \A i \in 1..Len(log) :
            log[i][1] = "exec" =>
              /\ i > 1
              /\ log[i - 1][1] = "call"
              /\ log[i - 1][3] = log[i][3]
              /\ log[i][2] >= log[i - 1][2] + wait
      /\ (log /= <<>> /\ log[Len(log)][1] = "call") =>
            pending = {<<debounceId, log[Len(log)][2] + wait, log[Len(log)][3]>>}
      /\ (log /= <<>> /\ log[Len(log)][1] /= "call") => pending = {}

\* a burst of two calls less than `wait` apart was executed once, `wait` ms
\* after the second call and with its arguments
C25_Witness ==
    /\ ~leading /\ wait = 2
    /\ Len(log) = 3
    /\ log[1][1] = "call" /\ log[2][1] = "call"
    /\ log[2][2] = log[1][2] + 1
    /\ log[1][3] = 1 /\ log[2][3] = 2
    /\ log[3] = <<"exec", log[2][2] + wait, 2>>

C27_OneTimer ==
    /\ Cardinality(timers) <= 1
    /\ \A t \in timers : t[1] = timeoutId

\* resume() has armed the timer of the remaining wait while an invocation is
\* still in flight: one timer is pending, the one held in timeoutId
C27_Witness ==
    /\ state = "running" /\ inflight = 1 /\ remaining > 0
    /\ Cardinality(timers) = 1
    /\ \E t \in timers : t[1] = timeoutId /\ t[2] = now + remaining

\* C28: stop() and pause() leave an invocation in flight alone, and when an
\* invocation settles on a loop that was stopped or paused during it, its
\* outcome is emitted: `tick` when it fulfilled, `error` when it rejected.
C28_OutcomeStillEmitted ==
    [][/\ (Stop \/ Pause) => (inflight' = inflight /\ settled' = settled)
       /\ \A ok \in BOOLEAN :
             (FnSettles(ok) /\ interrupted /\ state /= "running") =>
                emitted' = <<Ev(IF ok THEN "tick" ELSE "error", 0)>>]_vars

(* ======================= Cache claims, continued ======================= *)
\* C29: in every reachable state set(k, v, t) can only store v with the expiry
\* now + t for every ttl t that is passed, zero included, and with no expiry
\* when the ttl is omitted, replacing the value and expiry a former set of k
\* stored.
C29_SetExpiry ==
    \A k \in Keys, v \in Values, t \in Ttls :
      ~ENABLED (/\ Set(k, v, t)
                /\ ~(/\ IndexOf(cache', k) /= 0
                     /\ cache'[IndexOf(cache', k)].value = v
                     /\ cache'[IndexOf(cache', k)].expiresAt =
                            (IF t = Nil THEN Nil ELSE now + t)))

(* ======================== Loop claims, continued ======================= *)
\* C30: a running loop is never left with no invocation in flight or
\* completing and no timer pending, so that its function is invoked again
\* after every completion.
C30_NeverStalled ==
    ~(/\ state = "running"
      /\ inflight = 0 /\ settled = "none"
      /\ timers = {})

====
